---- MODULE Spec2Model ----
(***************************************************************************)
(* Model of the resume-roast debate pipeline and its feedback memory.      *)
(*                                                                         *)
(*   - AgentOrchestrator.execute_debate   (src/server/agents/graph.py)     *)
(*   - stream_analysis / generate_stream  (src/server/api/routes.py)       *)
(*   - submit_feedback                    (src/server/api/routes.py)       *)
(*   - FeedbackRepository                 (src/server/repositories/        *)
(*                                         feedback_repository.py)         *)
(*   - get_db_session                     (src/server/database.py)         *)
(*   - refresh_agent_memory               (src/server/main.py)             *)
(*   - ResumeRepository                   (src/server/repositories/        *)
(*                                         resume_repository.py)           *)
(*   - LLMService.generate_agent_response (src/server/services/            *)
(*                                         llm_service.py)                 *)
(*   - ResumeRoastUI                      (src/frontend/app.py)            *)
(*                                                                         *)
(* Text is a sequence of one-character strings, so that str.strip() and    *)
(* concatenation are computed rather than assumed.  An Optional value is   *)
(* the empty sequence (None) or a one-element sequence.                    *)
(* Every request owns one database session (get_db): what it adds or       *)
(* changes becomes visible to the other requests when get_db_session       *)
(* commits, after the response has been produced.                          *)
(*                                                                         *)
(* Specifications: Spec (two stream_analysis requests), SpecEngine         *)
(* (execute_debate on any texts, under generate_stream or a plain caller), *)
(* SpecFeedback (submit_feedback requests after the debates), SpecMemory   *)
(* (a debate with feedback and memory refreshes going on), SpecUpsert      *)
(* (create_or_update_learning called in a row), SpecSerialFeedback         *)
(* (submit_feedback requests one at a time), SpecTopPatterns               *)
(* (get_aggregated_learnings on tables of learnings), SpecRepository (the  *)
(* repositories called directly on one db session), SpecUi (the bundled UI *)
(* as the only client).                                                    *)
(***************************************************************************)
EXTENDS Integers, Sequences, FiniteSets, TLC

\* ---------------------------------------------------------------- bounds
\* Fragments the Completion Gateway yields during one run, all agents together.
MaxChunks == 3

\* The stream_analysis requests that are served; they may overlap in time.
Runs == {1, 2}
\* Sessions created by upload_resume before the runs start.
Sessions == {"s1"}

\* ---------------------------------------------------------------- values
None == <<>>
Some(x) == <<x>>

\* Stored resume of every session: create_resume rejects blank text and a
\* blank job description, so the stored inputs are never blank.
ResumeText == <<"c", "v">>
JobDescription == <<"j", "d">>

\* Fragments of the Gateway: delta.content is yielded only when truthy, so a
\* fragment is never empty; it can be whitespace.  Here a stream may open
\* with whitespace; its later fragments are text.
Fragments(text) == IF text = <<>> THEN {<<"a">>, <<" ">>} ELSE {<<"a">>}

AgentNames == {"Critic", "Advocate", "Realist"}

\* The submit_feedback requests that are served; they may overlap in time.
FbReqs == {1, 2, 3}

\* Confidence scores are counted in hundredths: 95 is 0.95.
ConfidenceCap == 95
PositiveConfidence == 80
NegativeConfidence == 30
\* feedback_text[:200]
DescriptionLimit == 200

\* get_aggregated_learnings(limit=10) of stream_analysis, and limit=50 of
\* refresh_agent_memory.
MemoryLimit == 10
RefreshLimit == 50

\* Direct calls of create_or_update_learning in a row.
MaxUpserts == 3

\* The failures the client library raises; RateLimitError and
\* AuthenticationError are subclasses of APIError.
FailureKinds == {"APIError", "RateLimitError", "AuthenticationError", "Exception"}

\* `not text or not text.strip()`
IsBlank(text) == \A i \in 1..Len(text) : text[i] = " "

\* str.lower() on the agent names the program uses.
Lower(name) ==
    CASE name = "Critic" -> "critic"
      [] name = "Advocate" -> "advocate"
      [] name = "Realist" -> "realist"
      [] OTHER -> name

\* The agent that runs at position k of execute_debate.
AgentAt(k) ==
    CASE k = 1 -> "Critic"
      [] k = 2 -> "Advocate"
      [] OTHER -> "Realist"

\* Mutant of AgentOrder: Advocate's events carry Realist's order literal.
AgentOrderCopied(name) ==
    CASE name = "Critic" -> 1
      [] name = "Advocate" -> 3
      [] name = "Realist" -> 3
      [] OTHER -> 4

\* The order literal execute_debate puts in the events of an agent.
AgentOrder(name) ==
    CASE name = "Critic" -> 1
      [] name = "Advocate" -> 2
      [] name = "Realist" -> 3
      [] OTHER -> 4

\* ---------------------------------------------------------------- state
VARIABLES
    now,                 \* the clock datetime.utcnow() reads
    feedback_sessions,   \* table feedback_sessions: id -> row
    agent_response_rows, \* table agent_responses: committed rows
    pc,                  \* per run: position of generate_stream
    session_id,          \* per run: the session_id path parameter
    memory_context,      \* per run: the list memory_context of stream_analysis
    consumer,            \* per run: who iterates over execute_debate
    resume_text,         \* per run: the argument resume_text of execute_debate
    job_description,     \* per run: the argument job_description of execute_debate
    cur,                 \* per run: 1..3, the agent execute_debate is at
    responses,           \* per run: critic_response/advocate_response/realist_response
    chunks,              \* per run: fragments fetched from the Gateway so far
    gateway_calls,       \* per run: calls of generate_agent_response, in order
    emitted,             \* per run: events execute_debate has yielded
    agent_responses,     \* per run: the dict agent_responses of generate_stream
    sent,                \* per run: events generate_stream has yielded to the client
    db_new,              \* per run: rows added and flushed in the request's db session
    db_dirty,            \* per run: pending change of the session row (Optional)
    connected,           \* per run: the consumer still holds the connection
    aggregated_learnings, \* table aggregated_learnings: committed rows
    fb_pc,               \* per feedback request: position of submit_feedback
    fb_req,              \* per feedback request: the AgentFeedbackRequest body
    fb_turn,             \* per feedback request: pending change of the turn (Optional)
    fb_learning,         \* per feedback request: pending insert/update of a learning (Optional)
    fb_status,           \* per feedback request: HTTP status of the response (0: none yet)
    upsert_calls,        \* the keys of the direct calls of create_or_update_learning, in order
    upsert_scores,       \* the confidence_score arguments of those calls, in order
    AGENT_MEMORY,        \* the global AGENT_MEMORY of main.py
    openai_error,        \* per run: the exception of the OpenAI client the request is handling (Optional)
    resumes,             \* table resumes: id -> row
    session_resume_id,   \* column resume_id of feedback_sessions: session id -> resume id
    repo_calls,          \* the direct calls of repository methods with what they returned, in order
    current_session_id,  \* UI: ResumeRoastUI.current_session_id (Optional)
    agents_completed,    \* UI: ResumeRoastUI.agents_completed
    chat_container,      \* UI: the feedback button rows added to the chat container, in order
    ui_pc,               \* UI: position of handle_file_upload / stream_agent_responses
    ui_run,              \* UI: the run that serves its stream request (0: none yet)
    ui_read              \* UI: events read from that stream

vars == <<now, feedback_sessions, agent_response_rows, pc, session_id, memory_context,
          consumer, resume_text, job_description, cur,
          responses, chunks, gateway_calls, emitted, agent_responses, sent,
          db_new, db_dirty, connected, aggregated_learnings, fb_pc, fb_req,
          fb_turn, fb_learning, fb_status, upsert_calls, upsert_scores, AGENT_MEMORY,
          openai_error, resumes, session_resume_id, repo_calls, current_session_id,
          agents_completed, chat_container, ui_pc, ui_run, ui_read>>

dbVars == <<feedback_sessions, agent_response_rows>>

engineArgs == <<consumer, resume_text, job_description>>

runVars == <<openai_error, pc, session_id, memory_context, consumer, resume_text, job_description, cur, responses, chunks, gateway_calls, emitted,
             agent_responses, sent, db_new, db_dirty, connected>>

fbVars == <<fb_pc, fb_req, fb_turn, fb_learning, fb_status>>

learnVars == <<aggregated_learnings, fbVars, upsert_calls, upsert_scores>>

repoVars == <<resumes, session_resume_id, repo_calls>>

uiVars == <<current_session_id, agents_completed, chat_container, ui_pc, ui_run, ui_read>>

\* ---------------------------------------------------------------- events
AgentEvent(name, chunk, is_complete) ==
    [agent_name |-> name, chunk |-> chunk, is_complete |-> is_complete,
     order |-> AgentOrder(name)]

WorkflowEvent(res) ==
    [agent_name |-> "Workflow", chunk |-> <<>>, is_complete |-> TRUE, order |-> 4,
     results |-> [critic_response |-> res["Critic"],
                  advocate_response |-> res["Advocate"],
                  realist_response |-> res["Realist"]]]

ErrorEvent(message) == [error |-> TRUE, message |-> message]

IsError(e) == "error" \in DOMAIN e

\* ---------------------------------------------------------------- agents
\* Mutant of FormatUserMessageError: the texts are tested without .strip().
FormatUserMessageErrorNoStrip(name, text, description, critic_response, advocate_response) ==
    IF text = <<>> THEN Some("Resume text cannot be empty")
    ELSE IF description = <<>> THEN Some("Job description cannot be empty")
    ELSE IF name = "Realist" /\ critic_response = <<>> THEN Some("Critic response cannot be empty")
    ELSE IF name = "Realist" /\ advocate_response = <<>> THEN Some("Advocate response cannot be empty")
    ELSE None

\* Mutant of FormatUserMessageError: Realist checks the inputs Critic checks.
FormatUserMessageErrorAsCritic(name, text, description, critic_response, advocate_response) ==
    IF IsBlank(text) THEN Some("Resume text cannot be empty")
    ELSE IF IsBlank(description) THEN Some("Job description cannot be empty")
    ELSE None

\* CriticAgent/AdvocateAgent/RealistAgent.format_user_message: the error it
\* raises (None when it returns).
FormatUserMessageError(name, text, description, critic_response, advocate_response) ==
    IF IsBlank(text) THEN Some("Resume text cannot be empty")
    ELSE IF IsBlank(description) THEN Some("Job description cannot be empty")
    ELSE IF name = "Realist" /\ IsBlank(critic_response) THEN Some("Critic response cannot be empty")
    ELSE IF name = "Realist" /\ IsBlank(advocate_response) THEN Some("Advocate response cannot be empty")
    ELSE None

\* Mutant of FormatUserMessage: Realist's message embeds Advocate's text in
\* both places.
FormatUserMessageAdvocateTwice(name, text, description, critic_response, advocate_response) ==
    IF name = "Realist"
    THEN [job_description |-> description, resume_text |-> text,
          critic_response |-> advocate_response, advocate_response |-> advocate_response]
    ELSE [job_description |-> description, resume_text |-> text]

\* The texts format_user_message embeds in the message it returns.
FormatUserMessage(name, text, description, critic_response, advocate_response) ==
    IF name = "Realist"
    THEN [job_description |-> description, resume_text |-> text,
          critic_response |-> critic_response, advocate_response |-> advocate_response]
    ELSE [job_description |-> description, resume_text |-> text]

\* LLMService.generate_agent_response: the message of the RuntimeError it
\* raises.  The except clauses are tried in the order written.
GatewayErrorMessage(kind, name) ==
    IF kind \in {"APIError", "RateLimitError", "AuthenticationError"}
    THEN <<"OpenAI API error for", name>>
    ELSE <<"Unexpected error with OpenAI for", name>>

IsGatewayError(e) ==
    /\ IsError(e)
    /\ Len(e.message) = 2
    /\ e.message[1] \in {"OpenAI API error for", "Unexpected error with OpenAI for"}

\* ---------------------------------------------------------------- repository
\* Mutant of AddAgentResponseError: the text is tested without .strip().
AddAgentResponseErrorNoStrip(sid, name, response_text, order) ==
    IF IsBlank(<<name>>) THEN Some("Agent name is required")
    ELSE IF response_text = <<>> THEN Some("Response text is required")
    ELSE IF order < 0 THEN Some("Order must be non-negative")
    ELSE None

\* FeedbackRepository.add_agent_response: the ValueError it raises (None when
\* it inserts).
AddAgentResponseError(sid, name, response_text, order) ==
    IF IsBlank(<<name>>) THEN Some("Agent name is required")
    ELSE IF IsBlank(response_text) THEN Some("Response text is required")
    ELSE IF order < 0 THEN Some("Order must be non-negative")
    ELSE None

\* The row add_agent_response inserts.  id stands for the uuid4 default: the
\* request and the position in it, which is unique as a fresh uuid is.
AgentResponseRow(r, sid, name, response_text, order) ==
    [id |-> <<r, order>>, session_id |-> sid, agent_name |-> Lower(name),
     response_text |-> response_text, order |-> order,
     thumbs_up |-> None, feedback_text |-> None]

\* ---------------------------------------------------------------- learnings
Max(a, b) == IF a >= b THEN a ELSE b
Min(a, b) == IF a <= b THEN a ELSE b

PatternTypes == {"positive_feedback", "negative_feedback"}
TooVague == <<"t", "o", "o", " ", "v", "a", "g", "u", "e">>
\* The descriptions and agent names create_or_update_learning is called with.
Descriptions == {TooVague, <<"User gave positive feedback">>, <<"User gave negative feedback">>}
UpsertAgentNames == {"Critic", "critic", "Realist"}
UpsertConfidences == {0, NegativeConfidence, PositiveConfidence, 100}
LearningKeys == PatternTypes \X Descriptions \X {Lower(a) : a \in UpsertAgentNames \cup AgentNames}

LearningKey(l) == <<l.pattern_type, l.description, l.agent_name>>

\* Mutant of FindLearning: the agent name is compared as given, not lower-cased.
FindLearningCaseSensitive(table, pattern_type, description, agent_name) ==
    {l \in table : /\ l.pattern_type = pattern_type
                   /\ l.description = description
                   /\ l.agent_name = agent_name}

\* The SELECT of create_or_update_learning: the rows with the same pattern
\* type, description and lower-cased agent name.
FindLearning(table, pattern_type, description, agent_name) ==
    {l \in table : /\ l.pattern_type = pattern_type
                   /\ l.description = description
                   /\ l.agent_name = Lower(agent_name)}

\* Mutant of UpdatedLearning: the capped new score replaces the stored one.
UpdatedLearningReplaces(existing, confidence_score, t) ==
    [existing EXCEPT !.frequency = @ + 1,
                     !.confidence_score = Min(confidence_score, ConfidenceCap),
                     !.last_updated = t]

\* The `if existing:` branch of create_or_update_learning.
UpdatedLearning(existing, confidence_score, t) ==
    [existing EXCEPT !.frequency = @ + 1,
                     !.confidence_score = Max(@, Min(confidence_score, ConfidenceCap)),
                     !.last_updated = t]

\* The `else:` branch of create_or_update_learning: the row it inserts.
NewLearning(id, pattern_type, description, agent_name, confidence_score, t) ==
    [id |-> id, pattern_type |-> pattern_type, description |-> description,
     agent_name |-> Lower(agent_name), confidence_score |-> confidence_score,
     frequency |-> 1, last_updated |-> t]

\* Mutant of NotAfter: the rows are ordered by last_updated alone.
NotAfterByTime(l1, l2) == l1.last_updated >= l2.last_updated

\* ORDER BY frequency DESC, last_updated DESC: l1 is not after l2.
NotAfter(l1, l2) ==
    \/ l1.frequency > l2.frequency
    \/ l1.frequency = l2.frequency /\ l1.last_updated >= l2.last_updated

\* The rows of the table in that order.  Every write of a record reads the
\* clock anew, so two records never tie on both columns.
RECURSIVE OrderedLearnings(_)
OrderedLearnings(table) ==
    IF table = {} THEN <<>>
    ELSE LET first == CHOOSE l \in table : \A other \in table : NotAfter(l, other)
         IN  <<first>> \o OrderedLearnings(table \ {first})

\* FeedbackRepository.get_aggregated_learnings(limit), without agent filter.
GetAggregatedLearnings(table, limit) ==
    SubSeq(OrderedLearnings(table), 1, Min(limit, Cardinality(table)))

\* `[learning.description for learning in learnings]`
MemoryDescriptions(table, limit) ==
    LET learnings == GetAggregatedLearnings(table, limit)
    IN  [i \in 1..Len(learnings) |-> learnings[i].description]

\* The body of a feedback request that has not arrived.
NoRequest == [session_id |-> "", agent_name |-> "", thumbs_up |-> FALSE, feedback_text |-> None]

\* ---------------------------------------------------------------- Init
\* The resume every session of Sessions belongs to.
StoredResume ==
    [filename |-> <<"f">>, text_content |-> ResumeText, s3_url |-> <<"u">>,
     job_description |-> JobDescription]

\* The tables behind the sessions of Sessions; no repository method has been
\* called directly.
RepositoryInit ==
    /\ resumes = ("r1" :> StoredResume)
    /\ session_resume_id = [s \in Sessions |-> "r1"]
    /\ repo_calls = <<>>

\* ResumeRoastUI.__init__
UiInit ==
    /\ current_session_id = None
    /\ agents_completed = {}
    /\ chat_container = <<>>
    /\ ui_pc = "idle"
    /\ ui_run = 0
    /\ ui_read = 0

\* The state after construction, but for the clock and the learnings.
Started ==
    /\ feedback_sessions = [s \in Sessions |-> [status |-> "in_progress", completed_at |-> None]]
    /\ agent_response_rows = {}
    /\ pc = [r \in Runs |-> "idle"]
    /\ session_id = [r \in Runs |-> "s1"]
    /\ memory_context = [r \in Runs |-> <<>>]
    /\ consumer = [r \in Runs |-> "generate_stream"]
    /\ resume_text = [r \in Runs |-> ResumeText]
    /\ job_description = [r \in Runs |-> JobDescription]
    /\ cur = [r \in Runs |-> 1]
    /\ responses = [r \in Runs |-> [a \in AgentNames |-> <<>>]]
    /\ chunks = [r \in Runs |-> 0]
    /\ gateway_calls = [r \in Runs |-> <<>>]
    /\ emitted = [r \in Runs |-> <<>>]
    /\ agent_responses = [r \in Runs |-> <<>>]
    /\ sent = [r \in Runs |-> <<>>]
    /\ db_new = [r \in Runs |-> {}]
    /\ db_dirty = [r \in Runs |-> None]
    /\ connected = [r \in Runs |-> TRUE]
    /\ fb_pc = [q \in FbReqs |-> "idle"]
    /\ fb_req = [q \in FbReqs |-> NoRequest]
    /\ fb_turn = [q \in FbReqs |-> None]
    /\ fb_learning = [q \in FbReqs |-> None]
    /\ fb_status = [q \in FbReqs |-> 0]
    /\ upsert_calls = <<>>
    /\ upsert_scores = <<>>
    /\ AGENT_MEMORY = <<>>
    /\ openai_error = [r \in Runs |-> None]
    /\ RepositoryInit
    /\ UiInit

Init ==
    /\ now = 1
    /\ aggregated_learnings = {}
    /\ Started

\* ---------------------------------------------------------------- generate_stream
\* Mutant of Accumulate: the chunk replaces the entry (`=` for `+=`).
AccumulateOverwrite(dict, e) ==
    IF e.is_complete THEN dict
    ELSE LET seen == IF e.agent_name \in DOMAIN dict
                     THEN dict
                     ELSE (e.agent_name :> <<>>) @@ dict
         IN  [seen EXCEPT ![e.agent_name] = e.chunk]

\* `if not response_data["is_complete"]:` of generate_stream: the chunk of the
\* event is appended to the entry of its agent, which is created when missing.
Accumulate(dict, e) ==
    IF e.is_complete THEN dict
    ELSE LET seen == IF e.agent_name \in DOMAIN dict
                     THEN dict
                     ELSE (e.agent_name :> <<>>) @@ dict
         IN  [seen EXCEPT ![e.agent_name] = @ \o e.chunk]

\* Where an exception that leaves execute_debate takes the run: the except
\* clause of generate_stream yields it as an error event and the stream ends;
\* a caller that iterates over execute_debate itself gets it raised, which
\* the log of what the caller received shows as an error record.
AfterException(r) == IF consumer[r] = "generate_stream" THEN "ended" ELSE "raised"

\* One iteration of the `async for response_data in execute_debate(...)` loop
\* of generate_stream for the event e, up to the yield to the client; pcNext
\* is where the engine stands after the event.  An exception of
\* add_agent_response leaves the loop for the except clause, which yields the
\* error event and ends the stream.
HandleEvent(r, e, pcNext) ==
    LET save == consumer[r] = "generate_stream"
                /\ e.is_complete /\ e.agent_name # "Workflow"
                /\ e.agent_name \in DOMAIN agent_responses[r]
        text == agent_responses[r][e.agent_name]
        err == IF save
               THEN AddAgentResponseError(session_id[r], e.agent_name, text, e.order)
               ELSE None
    IN  /\ emitted' = [emitted EXCEPT ![r] = Append(@, e)]
        /\ IF err # None
           THEN /\ sent' = [sent EXCEPT ![r] = Append(@, ErrorEvent(<<err[1]>>))]
                /\ pc' = [pc EXCEPT ![r] = "ended"]
                /\ UNCHANGED <<db_new, agent_responses>>
           ELSE /\ db_new' = IF save
                             THEN [db_new EXCEPT ![r] = @ \cup
                                     {AgentResponseRow(r, session_id[r], e.agent_name, text, e.order)}]
                             ELSE db_new
                /\ agent_responses' =
                     IF consumer[r] = "generate_stream"
                     THEN [agent_responses EXCEPT ![r] = Accumulate(@, e)]
                     ELSE agent_responses
                /\ sent' = [sent EXCEPT ![r] = Append(@, e)]
                /\ pc' = [pc EXCEPT ![r] = pcNext]

\* stream_analysis up to the StreamingResponse: the session and its resume are
\* looked up, the memory context is read, and the response starts.
StreamAnalysis(r, s) ==
    /\ pc[r] = "idle"
    /\ IF r = 1 THEN TRUE ELSE pc[r - 1] # "idle"
    /\ s \in DOMAIN feedback_sessions
    /\ pc' = [pc EXCEPT ![r] = "start"]
    /\ session_id' = [session_id EXCEPT ![r] = s]
    /\ memory_context' = [memory_context EXCEPT ![r] =
                            MemoryDescriptions(aggregated_learnings, MemoryLimit)]
    /\ consumer' = [consumer EXCEPT ![r] = "generate_stream"]
    /\ resume_text' = [resume_text EXCEPT ![r] = ResumeText]
    /\ job_description' = [job_description EXCEPT ![r] = JobDescription]
    /\ UNCHANGED <<learnVars, AGENT_MEMORY, repoVars, uiVars, openai_error, now, dbVars, cur, responses, chunks, gateway_calls, emitted,
                   agent_responses, sent, db_new, db_dirty, connected>>

\* AgentOrchestrator.execute_debate is called with the given texts, by
\* generate_stream or by a caller that only iterates over its events.
ExecuteDebate(r, c, text, description) ==
    /\ pc[r] = "idle"
    /\ IF r = 1 THEN TRUE ELSE pc[r - 1] # "idle"
    /\ pc' = [pc EXCEPT ![r] = "start"]
    /\ consumer' = [consumer EXCEPT ![r] = c]
    /\ resume_text' = [resume_text EXCEPT ![r] = text]
    /\ job_description' = [job_description EXCEPT ![r] = description]
    /\ UNCHANGED <<learnVars, AGENT_MEMORY, repoVars, uiVars, openai_error, now, dbVars, session_id, memory_context, cur,
                   responses, chunks, gateway_calls, emitted, agent_responses, sent,
                   db_new, db_dirty, connected>>

\* execute_debate yields the opening event of the current agent.
EmitStart(r) ==
    /\ pc[r] = "start"
    /\ HandleEvent(r, AgentEvent(AgentAt(cur[r]), <<>>, FALSE), "call")
    /\ UNCHANGED <<learnVars, AGENT_MEMORY, repoVars, uiVars, openai_error, now, dbVars, session_id, memory_context, engineArgs, cur, responses, chunks, gateway_calls, db_dirty, connected>>

\* Mutant of CallGateway: the memory context is read again for every agent.
CallGatewayRereads(r) ==
    LET name == AgentAt(cur[r])
        err == FormatUserMessageError(name, resume_text[r], job_description[r],
                                      responses[r]["Critic"], responses[r]["Advocate"])
    IN  /\ pc[r] = "call"
        /\ IF err # None
           THEN /\ sent' = [sent EXCEPT ![r] = Append(@, ErrorEvent(<<err[1]>>))]
                /\ pc' = [pc EXCEPT ![r] = AfterException(r)]
                /\ UNCHANGED gateway_calls
           ELSE /\ gateway_calls' = [gateway_calls EXCEPT ![r] = Append(@,
                      [agent_name |-> name,
                       memory_context |-> MemoryDescriptions(aggregated_learnings, MemoryLimit),
                       user_message |-> FormatUserMessage(name, resume_text[r], job_description[r],
                                           responses[r]["Critic"], responses[r]["Advocate"])])]
                /\ pc' = [pc EXCEPT ![r] = "stream"]
                /\ UNCHANGED sent
        /\ UNCHANGED <<learnVars, AGENT_MEMORY, repoVars, uiVars, openai_error, now, dbVars, session_id, memory_context, engineArgs, cur, responses, chunks, emitted,
                       agent_responses, db_new, db_dirty, connected>>

\* execute_debate builds the prompts of the current agent and enters the
\* `async for` over generate_agent_response, with the memory context the
\* run was started with.
CallGateway(r) ==
    LET name == AgentAt(cur[r])
        err == FormatUserMessageError(name, resume_text[r], job_description[r],
                                      responses[r]["Critic"], responses[r]["Advocate"])
    IN  /\ pc[r] = "call"
        /\ IF err # None
           THEN /\ sent' = [sent EXCEPT ![r] = Append(@, ErrorEvent(<<err[1]>>))]
                /\ pc' = [pc EXCEPT ![r] = AfterException(r)]
                /\ UNCHANGED gateway_calls
           ELSE /\ gateway_calls' = [gateway_calls EXCEPT ![r] = Append(@,
                      [agent_name |-> name, memory_context |-> memory_context[r],
                       user_message |-> FormatUserMessage(name, resume_text[r], job_description[r],
                                           responses[r]["Critic"], responses[r]["Advocate"])])]
                /\ pc' = [pc EXCEPT ![r] = "stream"]
                /\ UNCHANGED sent
        /\ UNCHANGED <<learnVars, AGENT_MEMORY, repoVars, uiVars, openai_error, now, dbVars, session_id, memory_context, engineArgs, cur, responses, chunks, emitted,
                       agent_responses, db_new, db_dirty, connected>>

\* The Gateway yields a fragment: execute_debate appends it to the agent's
\* response and yields the chunk event.
GatewayChunk(r) ==
    LET name == AgentAt(cur[r])
    IN  /\ pc[r] = "stream"
        /\ chunks[r] < MaxChunks
        /\ \E c \in Fragments(responses[r][name]) :
              /\ responses' = [responses EXCEPT ![r][name] = @ \o c]
              /\ HandleEvent(r, AgentEvent(name, c, FALSE), "stream")
        /\ chunks' = [chunks EXCEPT ![r] = @ + 1]
        /\ UNCHANGED <<learnVars, AGENT_MEMORY, repoVars, uiVars, openai_error, now, dbVars, session_id, memory_context, engineArgs, cur, gateway_calls, db_dirty, connected>>

\* The Gateway stream ends: execute_debate yields the agent's completion
\* event, and goes on to the next agent or to the Workflow event.
GatewayEnd(r) ==
    LET name == AgentAt(cur[r])
    IN  /\ pc[r] = "stream"
        /\ HandleEvent(r, AgentEvent(name, <<>>, TRUE),
                       IF cur[r] < 3 THEN "start" ELSE "workflow")
        /\ cur' = [cur EXCEPT ![r] = IF @ < 3 /\ pc'[r] = "start" THEN @ + 1 ELSE @]
        /\ UNCHANGED <<learnVars, AGENT_MEMORY, repoVars, uiVars, openai_error, now, dbVars, session_id, memory_context, engineArgs, responses, chunks, gateway_calls, db_dirty, connected>>

\* Mutant of GatewayFail: the error event is yielded inside the loop and the
\* debate goes on with the next agent.
GatewayFailContinues(r, kind) ==
    /\ pc[r] = "stream"
    /\ openai_error' = [openai_error EXCEPT ![r] = Some(kind)]
    /\ sent' = [sent EXCEPT ![r] =
                  Append(@, ErrorEvent(GatewayErrorMessage(kind, AgentAt(cur[r]))))]
    /\ pc' = [pc EXCEPT ![r] = IF cur[r] < 3 THEN "start" ELSE "ended"]
    /\ cur' = [cur EXCEPT ![r] = IF @ < 3 THEN @ + 1 ELSE @]
    /\ UNCHANGED <<learnVars, AGENT_MEMORY, repoVars, uiVars, now, dbVars, session_id, memory_context, engineArgs, responses, chunks, gateway_calls,
                   emitted, agent_responses, db_new, db_dirty, connected>>

\* The Gateway fails, on the request or in the middle of the stream:
\* generate_agent_response raises RuntimeError, execute_debate lets it
\* through, and the except clause of generate_stream yields the error event.
GatewayFail(r, kind) ==
    /\ pc[r] = "stream"
    /\ openai_error' = [openai_error EXCEPT ![r] = Some(kind)]
    /\ sent' = [sent EXCEPT ![r] =
                  Append(@, ErrorEvent(GatewayErrorMessage(kind, AgentAt(cur[r]))))]
    /\ pc' = [pc EXCEPT ![r] = AfterException(r)]
    /\ UNCHANGED <<learnVars, AGENT_MEMORY, repoVars, uiVars, now, dbVars, session_id, memory_context, engineArgs, cur, responses, chunks, gateway_calls,
                   emitted, agent_responses, db_new, db_dirty, connected>>

\* execute_debate yields the final Workflow event.
EmitWorkflow(r) ==
    /\ pc[r] = "workflow"
    /\ HandleEvent(r, WorkflowEvent(responses[r]),
                   IF consumer[r] = "generate_stream" THEN "complete" ELSE "exhausted")
    /\ UNCHANGED <<learnVars, AGENT_MEMORY, repoVars, uiVars, openai_error, now, dbVars, session_id, memory_context, engineArgs, cur, responses, chunks, gateway_calls, db_dirty, connected>>

\* FeedbackRepository.complete_feedback_session, called when the loop of
\* generate_stream is over.
CompleteSession(r) ==
    /\ pc[r] = "complete"
    /\ db_dirty' = [db_dirty EXCEPT ![r] =
                      IF session_id[r] \in DOMAIN feedback_sessions
                      THEN Some([status |-> "completed", completed_at |-> Some(now)])
                      ELSE @]
    /\ now' = now + 1
    /\ pc' = [pc EXCEPT ![r] = "ended"]
    /\ UNCHANGED <<learnVars, AGENT_MEMORY, repoVars, uiVars, openai_error, dbVars, session_id, memory_context, engineArgs, cur, responses, chunks, gateway_calls,
                   emitted, agent_responses, sent, db_new, connected>>

\* Mutant of Disconnect: a cleanup handler saves what the interrupted agent
\* has produced so far.
DisconnectSavesPartial(r) ==
    LET name == AgentAt(cur[r])
        partial == name \in DOMAIN agent_responses[r]
                   /\ pc[r] = "stream"
                   /\ ~IsBlank(agent_responses[r][name])
    IN  /\ consumer[r] = "generate_stream"
        /\ pc[r] \in {"start", "call", "stream", "workflow", "complete"}
        /\ pc' = [pc EXCEPT ![r] = "cancelled"]
        /\ connected' = [connected EXCEPT ![r] = FALSE]
        /\ db_new' = IF partial
                     THEN [db_new EXCEPT ![r] = @ \cup
                             {AgentResponseRow(r, session_id[r], name,
                                               agent_responses[r][name], AgentOrder(name))}]
                     ELSE db_new
        /\ UNCHANGED <<learnVars, AGENT_MEMORY, repoVars, uiVars, openai_error, now, dbVars, session_id, memory_context, engineArgs, cur, responses, chunks, gateway_calls,
                       emitted, agent_responses, sent, db_dirty>>

\* Mutant of Disconnect: the session is completed in a `finally` of
\* generate_stream, so also when the generator is closed.
DisconnectCompletes(r) ==
    /\ consumer[r] = "generate_stream"
    /\ pc[r] \in {"start", "call", "stream", "workflow", "complete"}
    /\ pc' = [pc EXCEPT ![r] = "cancelled"]
    /\ connected' = [connected EXCEPT ![r] = FALSE]
    /\ db_dirty' = [db_dirty EXCEPT ![r] =
                      Some([status |-> "completed", completed_at |-> Some(now)])]
    /\ UNCHANGED <<learnVars, AGENT_MEMORY, repoVars, uiVars, openai_error, now, dbVars, session_id, memory_context, engineArgs, cur, responses, chunks, gateway_calls,
                   emitted, agent_responses, sent, db_new>>

\* The consumer disconnects: the generator is closed where it is suspended.
\* Neither GeneratorExit nor CancelledError is an Exception, so the except
\* clause of generate_stream does not run and nothing more is yielded.
Disconnect(r) ==
    /\ consumer[r] = "generate_stream"
    /\ pc[r] \in {"start", "call", "stream", "workflow", "complete"}
    /\ pc' = [pc EXCEPT ![r] = "cancelled"]
    /\ connected' = [connected EXCEPT ![r] = FALSE]
    /\ UNCHANGED <<learnVars, AGENT_MEMORY, repoVars, uiVars, openai_error, now, dbVars, session_id, memory_context, engineArgs, cur, responses, chunks, gateway_calls,
                   emitted, agent_responses, sent, db_new, db_dirty>>

\* get_db_session after the request: no exception reached it, so it commits
\* what the request's db session holds and closes the session.
Teardown(r) ==
    /\ pc[r] \in {"ended", "cancelled"}
    /\ agent_response_rows' = agent_response_rows \cup db_new[r]
    /\ feedback_sessions' =
         IF db_dirty[r] # None
         THEN [feedback_sessions EXCEPT ![session_id[r]] = db_dirty[r][1]]
         ELSE feedback_sessions
    /\ pc' = [pc EXCEPT ![r] = "closed"]
    /\ openai_error' = [openai_error EXCEPT ![r] = None]
    /\ UNCHANGED <<learnVars, AGENT_MEMORY, repoVars, uiVars, now, session_id, memory_context, engineArgs, cur, responses, chunks, gateway_calls,
                   emitted, agent_responses, sent, db_new, db_dirty, connected>>

Next ==
    \/ \E r \in Runs, s \in Sessions : StreamAnalysis(r, s)
    \/ \E r \in Runs : EmitStart(r)
    \/ \E r \in Runs : CallGateway(r)
    \/ \E r \in Runs : GatewayChunk(r)
    \/ \E r \in Runs : GatewayEnd(r)
    \/ \E r \in Runs, kind \in FailureKinds : GatewayFail(r, kind)
    \/ \E r \in Runs : EmitWorkflow(r)
    \/ \E r \in Runs : CompleteSession(r)
    \/ \E r \in Runs : Disconnect(r)
    \/ \E r \in Runs : Teardown(r)

Spec == Init /\ [][Next]_vars

\* ---------------------------------------------------------------- submit_feedback
\* Mutant of Truncate: the whole text is taken.
TruncateNothing(text) == text

\* `feedback_request.feedback_text[:200]`
Truncate(text) == SubSeq(text, 1, Min(Len(text), DescriptionLimit))

\* The learning submit_feedback derives from the request body.
PatternType(req) == IF req.thumbs_up THEN "positive_feedback" ELSE "negative_feedback"
BaselineConfidence(req) == IF req.thumbs_up THEN PositiveConfidence ELSE NegativeConfidence
Description(req) ==
    IF req.feedback_text # None /\ req.feedback_text[1] # <<>>
    THEN Truncate(req.feedback_text[1])
    ELSE IF req.thumbs_up THEN <<"User gave positive feedback">>
                          ELSE <<"User gave negative feedback">>

\* The bodies that pass the validation of AgentFeedbackRequest.
FeedbackTexts == {None, Some(<<>>), Some(TooVague)}
FeedbackRequests ==
    [session_id : Sessions \cup {"s9"}, agent_name : {"Critic", "Realist"},
     thumbs_up : BOOLEAN, feedback_text : FeedbackTexts]

\* Mutant of FindAgentResponse: the SELECT has no condition on the session.
FindAgentResponseAnySession(table, sid, agent_name) ==
    {row \in table : row.agent_name = Lower(agent_name)}

\* get_agent_response_by_session_and_name: the rows its SELECT matches.
FindAgentResponse(table, sid, agent_name) ==
    {row \in table : row.session_id = sid /\ row.agent_name = Lower(agent_name)}

\* submit_feedback up to its return: the turn is looked up and changed, the
\* learning is derived and create_or_update_learning is called.  What the
\* request changes stays in its db session until get_db_session commits.
\* scalar_one_or_none raises MultipleResultsFound on more than one row, which
\* the handler turns into status 500.
SubmitFeedback(q, req) ==
    LET turns == FindAgentResponse(agent_response_rows, req.session_id, req.agent_name)
        turn == CHOOSE row \in turns : TRUE
        found == FindLearning(aggregated_learnings, PatternType(req), Description(req),
                              turn.agent_name)
    IN  /\ fb_pc[q] = "idle"
        /\ IF q = 1 THEN TRUE ELSE fb_pc[q - 1] # "idle"
        /\ fb_req' = [fb_req EXCEPT ![q] = req]
        /\ fb_pc' = [fb_pc EXCEPT ![q] = "returned"]
        /\ IF turns = {}
           THEN /\ fb_status' = [fb_status EXCEPT ![q] = 404]
                /\ UNCHANGED <<fb_turn, fb_learning, now>>
           ELSE IF Cardinality(turns) > 1
           THEN /\ fb_status' = [fb_status EXCEPT ![q] = 500]
                /\ UNCHANGED <<fb_turn, fb_learning, now>>
           ELSE IF Cardinality(found) > 1
           THEN /\ fb_status' = [fb_status EXCEPT ![q] = 500]
                /\ UNCHANGED <<fb_turn, fb_learning, now>>
           ELSE /\ fb_status' = [fb_status EXCEPT ![q] = 200]
                /\ fb_turn' = [fb_turn EXCEPT ![q] =
                                 Some([id |-> turn.id, thumbs_up |-> Some(req.thumbs_up),
                                       feedback_text |-> req.feedback_text])]
                /\ fb_learning' = [fb_learning EXCEPT ![q] =
                     IF found = {}
                     THEN Some([op |-> "insert",
                                row |-> NewLearning(<<"request", q>>, PatternType(req),
                                                    Description(req), turn.agent_name,
                                                    BaselineConfidence(req), now)])
                     ELSE LET existing == CHOOSE l \in found : TRUE
                          IN  Some([op |-> "update", loaded |-> existing,
                                    row |-> UpdatedLearning(existing,
                                                            BaselineConfidence(req), now)])]
                /\ now' = now + 1
        /\ UNCHANGED <<dbVars, runVars, AGENT_MEMORY, repoVars, uiVars, aggregated_learnings, upsert_calls, upsert_scores>>

\* The UPDATE the unit of work flushes for a changed learning: the columns
\* whose value differs from the loaded one, whatever the row holds by now.
FlushUpdate(table, loaded, row) ==
    {IF l.id = row.id
     THEN [l EXCEPT !.frequency = row.frequency,
                    !.last_updated = row.last_updated,
                    !.confidence_score = IF row.confidence_score # loaded.confidence_score
                                         THEN row.confidence_score ELSE @]
     ELSE l : l \in table}

\* get_db_session after submit_feedback: commit when the handler returned,
\* rollback when it raised.
FeedbackTeardown(q) ==
    /\ fb_pc[q] = "returned"
    /\ fb_pc' = [fb_pc EXCEPT ![q] = "closed"]
    /\ IF fb_status[q] = 200
       THEN /\ agent_response_rows' =
                 {IF row.id = fb_turn[q][1].id
                  THEN [row EXCEPT !.thumbs_up = fb_turn[q][1].thumbs_up,
                                   !.feedback_text = fb_turn[q][1].feedback_text]
                  ELSE row : row \in agent_response_rows}
            /\ aggregated_learnings' =
                 IF fb_learning[q][1].op = "insert"
                 THEN aggregated_learnings \cup {fb_learning[q][1].row}
                 ELSE FlushUpdate(aggregated_learnings, fb_learning[q][1].loaded,
                                  fb_learning[q][1].row)
       ELSE UNCHANGED <<agent_response_rows, aggregated_learnings>>
    /\ UNCHANGED <<now, feedback_sessions, runVars, AGENT_MEMORY, repoVars, uiVars, fb_req, fb_turn, fb_learning,
                   fb_status, upsert_calls, upsert_scores>>

NextFeedback ==
    \/ \E q \in FbReqs, req \in FeedbackRequests : SubmitFeedback(q, req)
    \/ \E q \in FbReqs : FeedbackTeardown(q)

\* ---------------------------------------------------------------- states after debates
\* The states stream_analysis leaves behind, from which feedback is
\* submitted.  In them the Gateway gave every agent that ran the one fragment
\* "a"; a run is "completed" (the whole debate, session completed), "cut" (the
\* consumer left after Critic's completion event) or "idle" (not requested).
AgentEvents(name) ==
    <<AgentEvent(name, <<>>, FALSE), AgentEvent(name, <<"a">>, FALSE),
      AgentEvent(name, <<>>, TRUE)>>

GatewayCall(name, critic_response, advocate_response) ==
    [agent_name |-> name, memory_context |-> <<>>,
     user_message |-> FormatUserMessage(name, ResumeText, JobDescription,
                                        critic_response, advocate_response)]

TurnsOfRun(r, upto) ==
    {AgentResponseRow(r, "s1", AgentAt(k), <<"a">>, AgentOrder(AgentAt(k))) : k \in 1..upto}

RunState(kind, r) ==
    LET all == [a \in AgentNames |-> <<"a">>]
        critic == [a \in AgentNames |-> IF a = "Critic" THEN <<"a">> ELSE <<>>]
        full == AgentEvents("Critic") \o AgentEvents("Advocate")
                  \o AgentEvents("Realist") \o <<WorkflowEvent(all)>>
    IN  CASE kind = "completed" ->
               [pc |-> "closed", cur |-> 3, responses |-> all, chunks |-> 3,
                gateway_calls |-> <<GatewayCall("Critic", <<>>, <<>>),
                                    GatewayCall("Advocate", <<"a">>, <<>>),
                                    GatewayCall("Realist", <<"a">>, <<"a">>)>>,
                emitted |-> full, sent |-> full, agent_responses |-> all,
                db_new |-> TurnsOfRun(r, 3),
                db_dirty |-> Some([status |-> "completed", completed_at |-> Some(r)]),
                connected |-> TRUE]
          [] kind = "cut" ->
               [pc |-> "closed", cur |-> 2, responses |-> critic, chunks |-> 1,
                gateway_calls |-> <<GatewayCall("Critic", <<>>, <<>>)>>,
                emitted |-> AgentEvents("Critic"), sent |-> AgentEvents("Critic"),
                agent_responses |-> ("Critic" :> <<"a">>),
                db_new |-> TurnsOfRun(r, 1), db_dirty |-> None, connected |-> FALSE]
          [] OTHER ->
               [pc |-> "idle", cur |-> 1, responses |-> [a \in AgentNames |-> <<>>],
                chunks |-> 0, gateway_calls |-> <<>>, emitted |-> <<>>, sent |-> <<>>,
                agent_responses |-> <<>>, db_new |-> {}, db_dirty |-> None,
                connected |-> TRUE]

\* Runs 1, 2 ended as kinds says, one after the other.
AfterDebates(kinds) ==
    LET completed == {r \in Runs : kinds[r] = "completed"}
    IN  /\ now = 1 + Cardinality(completed)
        /\ feedback_sessions =
             [s \in Sessions |->
                IF completed = {}
                THEN [status |-> "in_progress", completed_at |-> None]
                ELSE [status |-> "completed",
                      completed_at |-> Some(Cardinality(completed))]]
        /\ agent_response_rows = UNION {RunState(kinds[r], r).db_new : r \in Runs}
        /\ pc = [r \in Runs |-> RunState(kinds[r], r).pc]
        /\ session_id = [r \in Runs |-> "s1"]
        /\ memory_context = [r \in Runs |-> <<>>]
        /\ consumer = [r \in Runs |-> "generate_stream"]
        /\ resume_text = [r \in Runs |-> ResumeText]
        /\ job_description = [r \in Runs |-> JobDescription]
        /\ cur = [r \in Runs |-> RunState(kinds[r], r).cur]
        /\ responses = [r \in Runs |-> RunState(kinds[r], r).responses]
        /\ chunks = [r \in Runs |-> RunState(kinds[r], r).chunks]
        /\ gateway_calls = [r \in Runs |-> RunState(kinds[r], r).gateway_calls]
        /\ emitted = [r \in Runs |-> RunState(kinds[r], r).emitted]
        /\ agent_responses = [r \in Runs |-> RunState(kinds[r], r).agent_responses]
        /\ sent = [r \in Runs |-> RunState(kinds[r], r).sent]
        /\ db_new = [r \in Runs |-> RunState(kinds[r], r).db_new]
        /\ db_dirty = [r \in Runs |-> RunState(kinds[r], r).db_dirty]
        /\ connected = [r \in Runs |-> RunState(kinds[r], r).connected]

DebateOutcomes == {<<"completed", "idle">>, <<"completed", "completed">>, <<"cut", "idle">>}

NoFeedbackYet ==
    /\ aggregated_learnings = {}
    /\ fb_pc = [q \in FbReqs |-> "idle"]
    /\ fb_req = [q \in FbReqs |-> NoRequest]
    /\ fb_turn = [q \in FbReqs |-> None]
    /\ fb_learning = [q \in FbReqs |-> None]
    /\ fb_status = [q \in FbReqs |-> 0]
    /\ upsert_calls = <<>>
    /\ upsert_scores = <<>>
    /\ AGENT_MEMORY = <<>>
    /\ openai_error = [r \in Runs |-> None]
    /\ RepositoryInit
    /\ UiInit

FeedbackInit == \E kinds \in DebateOutcomes : AfterDebates(kinds) /\ NoFeedbackYet

\* Feedback submitted after the debates are over.
SpecFeedback == FeedbackInit /\ [][NextFeedback]_vars

\* Each of the states FeedbackInit starts from is reached by Spec.
ReachedOneDebate == AfterDebates(<<"completed", "idle">>) /\ NoFeedbackYet
ReachedTwoDebates == AfterDebates(<<"completed", "completed">>) /\ NoFeedbackYet
ReachedCutDebate == AfterDebates(<<"cut", "idle">>) /\ NoFeedbackYet

\* ---------------------------------------------------------------- feedback, one request at a time
\* A feedback text one character longer than the description may be; the
\* schema lets texts of up to 500 characters through.
LongText == [i \in 1..(DescriptionLimit + 1) |-> "x"]

SerialFeedbackRequests ==
    [session_id : Sessions, agent_name : {"Critic", "Realist"},
     thumbs_up : BOOLEAN,
     feedback_text : {None, Some(<<>>), Some(TooVague), Some(LongText)}]

\* submit_feedback for a client that waits for each answer, and for the end
\* of the request, before it sends the next.
SerialSubmitFeedback(q, req) ==
    /\ \A p \in FbReqs : fb_pc[p] # "returned"
    /\ SubmitFeedback(q, req)

NextSerialFeedback ==
    \/ \E q \in FbReqs, req \in SerialFeedbackRequests : SerialSubmitFeedback(q, req)
    \/ \E q \in FbReqs : FeedbackTeardown(q)

SpecSerialFeedback == FeedbackInit /\ [][NextSerialFeedback]_vars

\* ---------------------------------------------------------------- get_aggregated_learnings
\* Tables of learnings as feedback leaves them: one record per description,
\* each with its count and the time of its last write, no two written at the
\* same time.
MaxLimit == 3
MaxCalls == 3
MaxFrequency == 2
MaxUpdated == 3

LearningRow(d, f, t) ==
    [id |-> <<"row", d>>, pattern_type |-> "negative_feedback", description |-> d,
     agent_name |-> "critic", confidence_score |-> NegativeConfidence,
     frequency |-> f, last_updated |-> t]

LearningTables ==
    {T \in {{LearningRow(d, c[d][1], c[d][2]) : d \in D} :
                D \in SUBSET Descriptions,
                c \in [Descriptions -> (1..MaxFrequency) \X (1..MaxUpdated)]} :
        \A l1 \in T, l2 \in T : l1 # l2 => l1.last_updated # l2.last_updated}

\* A direct call of FeedbackRepository.get_aggregated_learnings(limit=limit).
CallGetAggregatedLearnings(limit) ==
    /\ Len(repo_calls) < MaxCalls
    /\ repo_calls' = Append(repo_calls,
                            [call |-> "get_aggregated_learnings", arg |-> limit,
                             raised |-> None,
                             value |-> GetAggregatedLearnings(aggregated_learnings, limit)])
    /\ UNCHANGED <<now, dbVars, runVars, learnVars, AGENT_MEMORY, resumes,
                   session_resume_id, uiVars>>

TopPatternsInit ==
    /\ now = MaxUpdated + 1
    /\ aggregated_learnings \in LearningTables
    /\ Started

NextTopPatterns ==
    \/ \E limit \in 1..MaxLimit : CallGetAggregatedLearnings(limit)
    \/ \E r \in Runs, s \in Sessions : StreamAnalysis(r, s)

\* The learnings are read, directly and by the start of a run.
SpecTopPatterns == TopPatternsInit /\ [][NextTopPatterns]_vars

\* ---------------------------------------------------------------- the repositories, called directly
\* The repository methods are called on one db session, as their tests call
\* them: the tables are what the queries of that session see, which flushes
\* its pending changes before every query (autoflush).
MaxCreated == 4

\* The uuid4 defaults of the rows inserted at clock reading k: fresh ids.
ResumeId(k) == CASE k = 1 -> "r1" [] k = 2 -> "r2" [] k = 3 -> "r3" [] k = 4 -> "r4" [] OTHER -> "r5"
SessionId(k) == CASE k = 1 -> "s1" [] k = 2 -> "s2" [] k = 3 -> "s3" [] k = 4 -> "s4" [] OTHER -> "s5"
ResumeIds == {ResumeId(k) : k \in 1..(MaxCreated + 1)}

\* str.strip()
RECURSIVE Strip(_)
Strip(text) ==
    IF text = <<>> THEN <<>>
    ELSE IF Head(text) = " " THEN Strip(Tail(text))
    ELSE IF text[Len(text)] = " " THEN Strip(SubSeq(text, 1, Len(text) - 1))
    ELSE text

\* The ValueError of ResumeRepository.create_resume (None when it inserts).
CreateResumeError(filename, text_content, s3_url, description) ==
    IF IsBlank(filename) THEN Some("Filename is required")
    ELSE IF IsBlank(text_content) THEN Some("Text content is required")
    ELSE IF IsBlank(s3_url) THEN Some("S3 URL is required")
    ELSE IF IsBlank(description) THEN Some("Job description is required")
    ELSE None

\* The argument lists create_resume is called with: one it accepts, with
\* padded text, and one for each field left blank.
CreateResumeArgs ==
    {<<<<"f">>, <<" ", "c", "v", " ">>, <<"u">>, JobDescription>>,
     <<<<>>, ResumeText, <<"u">>, JobDescription>>,
     <<<<"f">>, <<" ">>, <<"u">>, JobDescription>>,
     <<<<"f">>, ResumeText, <<>>, JobDescription>>,
     <<<<"f">>, ResumeText, <<"u">>, <<" ">>>>}

\* ResumeRepository.create_resume
CreateResume(args) ==
    LET err == CreateResumeError(args[1], args[2], args[3], args[4])
        id == ResumeId(now + 1)
        row == [filename |-> Strip(args[1]), text_content |-> Strip(args[2]),
                s3_url |-> Strip(args[3]), job_description |-> Strip(args[4])]
    IN  /\ Len(repo_calls) < MaxCalls
        /\ now < MaxCreated
        /\ IF err # None
           THEN /\ repo_calls' = Append(repo_calls,
                       [call |-> "create_resume", arg |-> args, raised |-> err,
                        value |-> None])
                /\ UNCHANGED <<resumes, now>>
           ELSE /\ resumes' = (id :> row) @@ resumes
                /\ now' = now + 1
                /\ repo_calls' = Append(repo_calls,
                       [call |-> "create_resume", arg |-> args, raised |-> None,
                        value |-> Some([id |-> id] @@ row)])
        /\ UNCHANGED <<dbVars, runVars, learnVars, AGENT_MEMORY, session_resume_id, uiVars>>

\* ResumeRepository.get_resume_by_id
GetResumeById(id) ==
    /\ Len(repo_calls) < MaxCalls
    /\ repo_calls' = Append(repo_calls,
            [call |-> "get_resume_by_id", arg |-> id, raised |-> None,
             value |-> IF id \in DOMAIN resumes THEN Some(resumes[id]) ELSE None])
    /\ UNCHANGED <<now, dbVars, runVars, learnVars, AGENT_MEMORY, resumes,
                   session_resume_id, uiVars>>

\* The function f without the keys in gone.
Without(f, gone) == [k \in DOMAIN f \ gone |-> f[k]]

\* Mutant of DeleteResume: the resume is deleted whether or not it was found
\* and the call returns True.
DeleteResumeAlwaysTrue(id) ==
    LET sessions == {s \in DOMAIN session_resume_id : session_resume_id[s] = id}
    IN  /\ Len(repo_calls) < MaxCalls
        /\ resumes' = Without(resumes, {id})
        /\ feedback_sessions' = Without(feedback_sessions, sessions)
        /\ session_resume_id' = Without(session_resume_id, sessions)
        /\ agent_response_rows' =
             {row \in agent_response_rows : row.session_id \notin sessions}
        /\ repo_calls' = Append(repo_calls,
               [call |-> "delete_resume", arg |-> id, raised |-> None, value |-> TRUE])
        /\ UNCHANGED <<now, runVars, learnVars, AGENT_MEMORY, uiVars>>

\* ResumeRepository.delete_resume: the resume found is deleted, and with it,
\* by the cascade of the relationships, its feedback sessions and their
\* agent responses.
DeleteResume(id) ==
    LET sessions == {s \in DOMAIN session_resume_id : session_resume_id[s] = id}
    IN  /\ Len(repo_calls) < MaxCalls
        /\ IF id \notin DOMAIN resumes
           THEN /\ repo_calls' = Append(repo_calls,
                       [call |-> "delete_resume", arg |-> id, raised |-> None,
                        value |-> FALSE])
                /\ UNCHANGED <<dbVars, resumes, session_resume_id>>
           ELSE /\ resumes' = Without(resumes, {id})
                /\ feedback_sessions' = Without(feedback_sessions, sessions)
                /\ session_resume_id' = Without(session_resume_id, sessions)
                /\ agent_response_rows' =
                     {row \in agent_response_rows : row.session_id \notin sessions}
                /\ repo_calls' = Append(repo_calls,
                       [call |-> "delete_resume", arg |-> id, raised |-> None,
                        value |-> TRUE])
        /\ UNCHANGED <<now, runVars, learnVars, AGENT_MEMORY, uiVars>>

\* Mutant of NewFeedbackSession: the session starts as pending.
NewFeedbackSessionPending == [status |-> "pending", completed_at |-> None]

\* The row of `FeedbackSession(resume_id=resume_id, status="in_progress")`.
NewFeedbackSession == [status |-> "in_progress", completed_at |-> None]

\* FeedbackRepository.create_feedback_session; resume_id is Optional.
CreateFeedbackSession(resume_id) ==
    LET id == SessionId(now + 1)
    IN  /\ Len(repo_calls) < MaxCalls
        /\ now < MaxCreated
        /\ IF resume_id = None THEN TRUE ELSE resume_id[1] \in DOMAIN resumes
        /\ IF resume_id = None
           THEN /\ repo_calls' = Append(repo_calls,
                       [call |-> "create_feedback_session", arg |-> resume_id,
                        raised |-> Some("Resume ID is required"), value |-> None])
                /\ UNCHANGED <<feedback_sessions, session_resume_id, now>>
           ELSE /\ feedback_sessions' = (id :> NewFeedbackSession) @@ feedback_sessions
                /\ session_resume_id' = (id :> resume_id[1]) @@ session_resume_id
                /\ now' = now + 1
                /\ repo_calls' = Append(repo_calls,
                       [call |-> "create_feedback_session", arg |-> resume_id,
                        raised |-> None,
                        value |-> Some([id |-> id, resume_id |-> resume_id[1]]
                                          @@ NewFeedbackSession)])
        /\ UNCHANGED <<agent_response_rows, runVars, learnVars, AGENT_MEMORY, resumes, uiVars>>

NextRepository ==
    \/ \E args \in CreateResumeArgs : CreateResume(args)
    \/ \E id \in ResumeIds : GetResumeById(id)
    \/ \E id \in ResumeIds : DeleteResume(id)
    \/ \E resume_id \in {None} \cup {Some(id) : id \in ResumeIds} :
          CreateFeedbackSession(resume_id)

SpecRepository == Init /\ [][NextRepository]_vars

\* ---------------------------------------------------------------- the UI client
\* One ResumeRoastUI instance uploads resumes, reads the stream of each
\* analysis and sends the feedback its buttons are clicked for.  Every upload
\* is a valid PDF with a job description; the dialog for feedback text always
\* yields None, which is sent as ''.
FeedbackTextLimit == 500

\* AgentFeedbackRequest: agent_name matches ^(Critic|Advocate|Realist)$ and
\* feedback_text has at most 500 characters.
ValidFeedbackRequest(req) ==
    /\ req.agent_name \in {"Critic", "Advocate", "Realist"}
    /\ IF req.feedback_text = None THEN TRUE
       ELSE Len(req.feedback_text[1]) <= FeedbackTextLimit

\* upload_resume: the resume and its feedback session are created and
\* committed.
UploadResume ==
    /\ resumes' = (ResumeId(now + 1) :> StoredResume) @@ resumes
    /\ feedback_sessions' = (SessionId(now + 1) :> NewFeedbackSession) @@ feedback_sessions
    /\ session_resume_id' = (SessionId(now + 1) :> ResumeId(now + 1)) @@ session_resume_id
    /\ now' = now + 1

\* handle_file_upload up to the call of stream_agent_responses: the upload is
\* answered with the new session, and the stream of its analysis is
\* requested.
UiUpload ==
    /\ ui_pc = "idle"
    /\ ui_run + 1 \in Runs
    /\ UploadResume
    /\ current_session_id' = Some(SessionId(now + 1))
    /\ ui_pc' = "streaming"
    /\ ui_run' = ui_run + 1
    /\ ui_read' = 0
    /\ UNCHANGED <<agent_response_rows, runVars, learnVars, AGENT_MEMORY, repo_calls,
                   agents_completed, chat_container>>

\* stream_analysis serves the stream request of the UI.
ServeStream(r) ==
    /\ ui_pc = "streaming"
    /\ ui_run = r
    /\ StreamAnalysis(r, current_session_id[1])

\* The row of feedback buttons added below an agent's response.
FeedbackButtons(agent_name, sid) == [agent_name |-> agent_name, session_id |-> sid]

\* One iteration of the loop of stream_agent_responses over the lines of the
\* stream: an error event and the Workflow event end the loop, which closes
\* the connection; an agent's completion event adds its feedback buttons
\* unless the agent is in agents_completed.
UiReceive ==
    LET e == sent[ui_run][ui_read + 1]
    IN  /\ ui_pc = "streaming"
        /\ ui_run \in Runs
        /\ ui_read < Len(sent[ui_run])
        /\ ui_read' = ui_read + 1
        /\ IF IsError(e)
           THEN /\ ui_pc' = "idle"
                /\ UNCHANGED <<agents_completed, chat_container>>
           ELSE IF e.agent_name # "Workflow"
           THEN /\ IF e.is_complete /\ e.agent_name \notin agents_completed
                   THEN /\ agents_completed' = agents_completed \cup {e.agent_name}
                        /\ chat_container' =
                             Append(chat_container,
                                    FeedbackButtons(e.agent_name, current_session_id[1]))
                   ELSE UNCHANGED <<agents_completed, chat_container>>
                /\ UNCHANGED ui_pc
           ELSE /\ ui_pc' = IF e.is_complete THEN "idle" ELSE ui_pc
                /\ UNCHANGED <<agents_completed, chat_container>>
        /\ UNCHANGED <<now, dbVars, runVars, learnVars, AGENT_MEMORY, repoVars,
                       current_session_id, ui_run>>

\* The server finds the connection of run r closed: the UI has left the loop
\* over its stream.
UiDisconnect(r) ==
    /\ IF ui_run = r THEN ui_pc = "idle" ELSE ui_run > r
    /\ Disconnect(r)

\* The feedback requests of the UI that are served.
UiFbReqs == {1}

\* ResumeRoastUI.submit_feedback after a click on a button of agent_name, and
\* the server's answer: a body that fails the validation of
\* AgentFeedbackRequest is answered 422 before submit_feedback runs.
UiSubmitFeedback(q, agent_name, thumbs_up) ==
    LET feedback_data == [session_id |-> current_session_id[1],
                          agent_name |-> Lower(agent_name),
                          thumbs_up |-> thumbs_up, feedback_text |-> Some(<<>>)]
    IN  /\ \E i \in 1..Len(chat_container) : chat_container[i].agent_name = agent_name
        /\ current_session_id # None
        /\ IF ValidFeedbackRequest(feedback_data)
           THEN SubmitFeedback(q, feedback_data)
           ELSE /\ fb_pc[q] = "idle"
                /\ IF q = 1 THEN TRUE ELSE fb_pc[q - 1] # "idle"
                /\ fb_req' = [fb_req EXCEPT ![q] = feedback_data]
                /\ fb_pc' = [fb_pc EXCEPT ![q] = "returned"]
                /\ fb_status' = [fb_status EXCEPT ![q] = 422]
                /\ UNCHANGED <<now, dbVars, runVars, AGENT_MEMORY, repoVars, uiVars,
                               aggregated_learnings, fb_turn, fb_learning,
                               upsert_calls, upsert_scores>>

\* The UI has read every event the run has sent it so far, or reads no more.
UiCaughtUp(r) ==
    IF ui_run = r /\ ui_pc = "streaming" THEN ui_read = Len(sent[r]) ELSE TRUE

\* No request is being served.
Quiet == \A r \in Runs : pc[r] \in {"idle", "closed"}

\* The events reach the UI as they are sent: the engine yields the next one
\* when the UI has read the last.  Feedback buttons are clicked when no
\* analysis is running.
NextUi ==
    \/ UiUpload
    \/ \E r \in Runs : ServeStream(r)
    \/ \E r \in Runs : UiCaughtUp(r) /\ EmitStart(r)
    \/ \E r \in Runs : UiCaughtUp(r) /\ CallGateway(r)
    \/ \E r \in Runs : UiCaughtUp(r) /\ GatewayChunk(r)
    \/ \E r \in Runs : UiCaughtUp(r) /\ GatewayEnd(r)
    \/ \E r \in Runs, kind \in FailureKinds : UiCaughtUp(r) /\ GatewayFail(r, kind)
    \/ \E r \in Runs : UiCaughtUp(r) /\ EmitWorkflow(r)
    \/ \E r \in Runs : CompleteSession(r)
    \/ \E r \in Runs : UiDisconnect(r)
    \/ \E r \in Runs : Teardown(r)
    \/ UiReceive
    \/ \E q \in UiFbReqs, agent_name \in AgentNames, thumbs_up \in BOOLEAN :
          Quiet /\ ui_pc = "idle" /\ UiSubmitFeedback(q, agent_name, thumbs_up)
    \/ \E q \in UiFbReqs : FeedbackTeardown(q)

\* The program with the bundled UI as its only client.
SpecUi == Init /\ [][NextUi]_vars

\* ---------------------------------------------------------------- create_or_update_learning
\* One call of FeedbackRepository.create_or_update_learning, the calls coming
\* one after the other on the same tables.
CreateOrUpdateLearning(pattern_type, description, agent_name, confidence_score) ==
    LET found == FindLearning(aggregated_learnings, pattern_type, description, agent_name)
        key == <<pattern_type, description, Lower(agent_name)>>
    IN  /\ Len(upsert_calls) < MaxUpserts
        /\ Cardinality(found) <= 1
        /\ aggregated_learnings' =
             IF found = {}
             THEN aggregated_learnings \cup
                    {NewLearning(<<"call", now>>, pattern_type, description,
                                 agent_name, confidence_score, now)}
             ELSE LET existing == CHOOSE l \in found : TRUE
                  IN  (aggregated_learnings \ {existing}) \cup
                        {UpdatedLearning(existing, confidence_score, now)}
        /\ upsert_calls' = Append(upsert_calls, key)
        /\ upsert_scores' = Append(upsert_scores, confidence_score)
        /\ now' = now + 1
        /\ UNCHANGED <<dbVars, runVars, AGENT_MEMORY, repoVars, uiVars, fbVars>>

NextUpsert ==
    \E pattern_type \in PatternTypes, description \in {TooVague},
       agent_name \in UpsertAgentNames, confidence_score \in UpsertConfidences :
        CreateOrUpdateLearning(pattern_type, description, agent_name, confidence_score)

SpecUpsert == Init /\ [][NextUpsert]_vars

\* ---------------------------------------------------------------- execute_debate alone
\* The texts execute_debate is handed: empty, whitespace, or a text.
ResumeTexts == {<<>>, <<" ">>, ResumeText}
JobDescriptions == {<<>>, <<" ">>, JobDescription}
Consumers == {"generate_stream", "direct"}
EngineRuns == {1}

NextEngine ==
    \/ \E r \in EngineRuns, c \in Consumers, text \in ResumeTexts,
          description \in JobDescriptions : ExecuteDebate(r, c, text, description)
    \/ \E r \in EngineRuns : EmitStart(r)
    \/ \E r \in EngineRuns : CallGateway(r)
    \/ \E r \in EngineRuns : GatewayChunk(r)
    \/ \E r \in EngineRuns : GatewayEnd(r)
    \/ \E r \in EngineRuns, kind \in FailureKinds : GatewayFail(r, kind)
    \/ \E r \in EngineRuns : EmitWorkflow(r)
    \/ \E r \in EngineRuns : CompleteSession(r)
    \/ \E r \in EngineRuns : Disconnect(r)
    \/ \E r \in EngineRuns : Teardown(r)

\* One debate, whatever texts it is handed and whoever consumes its events.
SpecEngine == Init /\ [][NextEngine]_vars

\* ---------------------------------------------------------------- memory
\* refresh_agent_memory, the scheduler's job: the published snapshot is
\* replaced by the descriptions of the learnings committed by now.
RefreshAgentMemory ==
    /\ AGENT_MEMORY' = MemoryDescriptions(aggregated_learnings, RefreshLimit)
    /\ UNCHANGED <<now, dbVars, runVars, learnVars, repoVars, uiVars>>

\* The feedback submitted while a debate runs: requests 1 and 2, about
\* Critic's turn of the first debate.
MemoryFbReqs == {1, 2}
MemoryFeedbackRequests ==
    [session_id : Sessions, agent_name : {"Critic"},
     thumbs_up : BOOLEAN, feedback_text : {None, Some(TooVague)}]

NextMemory ==
    \/ Next
    \/ \E q \in MemoryFbReqs, req \in MemoryFeedbackRequests : SubmitFeedback(q, req)
    \/ \E q \in MemoryFbReqs : FeedbackTeardown(q)
    \/ RefreshAgentMemory

\* A second debate of the session runs while feedback on the first is
\* submitted and the snapshot is refreshed.
SpecMemory == ReachedOneDebate /\ [][NextMemory]_vars

\* ================================================================ claims
Last(log) == log[Len(log)]

\* Position of an agent in the debate, by either spelling of its name.
Position(name) ==
    CASE name \in {"Critic", "critic"} -> 1
      [] name \in {"Advocate", "advocate"} -> 2
      [] name \in {"Realist", "realist"} -> 3
      [] OTHER -> 4

\* The chunk fields of the is_complete=false events of one agent in a log,
\* concatenated in the order of the log.
RECURSIVE ConcatChunks(_, _)
ConcatChunks(log, name) ==
    IF log = <<>> THEN <<>>
    ELSE LET e == Head(log)
             part == IF IsError(e) THEN <<>>
                     ELSE IF e.agent_name = name /\ ~e.is_complete THEN e.chunk
                     ELSE <<>>
         IN  part \o ConcatChunks(Tail(log), name)

CompleteIndexes(log, name) ==
    {i \in 1..Len(log) : log[i].agent_name = name /\ log[i].is_complete}

\* The rows a run has added, in its db session or committed.
RowsOf(r) == db_new[r] \cup {row \in agent_response_rows : row.id[1] = r}

\* C1: the events execute_debate yields carry the orders 1, 2, 3, 4 in that
\* sequence, Critic, Advocate, Realist, Workflow, never stepping back and
\* never skipping a value; an agent's is_complete=true event comes once and
\* after all the other events of that agent, and a run that reaches the
\* Workflow event has given each agent its completion event.
C1_EventOrder ==
    \A r \in Runs :
        LET log == emitted[r]
        IN  /\ Len(log) > 0 => log[1].order = 1
            /\ \A i \in 1..Len(log) :
                 /\ log[i].order \in 1..4
                 /\ log[i].agent_name =
                      (CASE log[i].order = 1 -> "Critic"
                         [] log[i].order = 2 -> "Advocate"
                         [] log[i].order = 3 -> "Realist"
                         [] OTHER -> "Workflow")
                 /\ i < Len(log) => log[i + 1].order - log[i].order \in {0, 1}
            /\ \A name \in AgentNames :
                 /\ Cardinality(CompleteIndexes(log, name)) <= 1
                 /\ \A i \in CompleteIndexes(log, name) :
                      \A j \in 1..Len(log) :
                          (log[j].agent_name = name /\ j # i) => j < i
                 /\ (\E j \in 1..Len(log) : log[j].order > Position(name))
                      => Cardinality(CompleteIndexes(log, name)) = 1
            /\ Cardinality(CompleteIndexes(log, "Workflow")) <= 1
            /\ \A i \in CompleteIndexes(log, "Workflow") : i = Len(log)

\* A run went through the three agents, each with a fragment, to the Workflow event.
C1_Witness ==
    \E r \in Runs :
        /\ Len(emitted[r]) = 10
        /\ Last(emitted[r]).agent_name = "Workflow"
        /\ \A name \in AgentNames : Len(ConcatChunks(emitted[r], name)) = 1

\* C2: when the Gateway fails while agent k streams, the stream carries one
\* error event, which is its last event; nothing of a later agent was yielded
\* and the Gateway was not called for a later agent; the run has a turn for
\* each agent before k and for no other, and those turns are in the table once
\* the request's db session is committed.
C2_GatewayFailureTerminal ==
    \A r \in Runs :
        LET log == sent[r]
            errors == {i \in 1..Len(log) : IsError(log[i])}
        IN  /\ Cardinality(errors) <= 1
            /\ \A i \in errors : i = Len(log) /\ pc[r] \in {"ended", "closed"}
            /\ \A i \in errors :
                 IsGatewayError(log[i]) =>
                    LET k == Position(log[i].message[2])
                    IN  /\ \A j \in 1..(Len(log) - 1) : log[j].order <= k
                        /\ \A j \in 1..Len(emitted[r]) : emitted[r][j].order <= k
                        /\ Len(gateway_calls[r]) = k
                        /\ \A j \in 1..k : gateway_calls[r][j].agent_name = AgentAt(j)
                        /\ {row.order : row \in db_new[r]} = 1..(k - 1)
                        /\ Cardinality(db_new[r]) = k - 1
                        /\ \A row \in db_new[r] : row.agent_name = Lower(AgentAt(row.order))
                        /\ pc[r] = "closed" => db_new[r] \subseteq agent_response_rows

\* The Gateway failed while Advocate streamed, after a fragment of it, and the
\* request is over: Critic's turn is in the table.
C2_Witness ==
    \E r \in Runs :
        /\ pc[r] = "closed"
        /\ sent[r] # <<>>
        /\ IsGatewayError(Last(sent[r]))
        /\ Last(sent[r]).message[2] = "Advocate"
        /\ responses[r]["Advocate"] # <<>>
        /\ \E row \in agent_response_rows : row.id[1] = r /\ row.agent_name = "critic"

\* C3: after a Gateway failure in a run, once the request is over the session
\* of the run has status failed.
C3_FailedStatus ==
    \A r \in Runs :
        (pc[r] = "closed" /\ sent[r] # <<>> /\ IsGatewayError(Last(sent[r])))
            => feedback_sessions[session_id[r]].status = "failed"

\* C4: the table holds at most one turn per session and agent.
C4_OneTurnPerAgent ==
    \A row1 \in agent_response_rows, row2 \in agent_response_rows :
        (row1.session_id = row2.session_id /\ row1.agent_name = row2.agent_name)
            => row1 = row2

\* C5: when the consumer disconnects while agent k streams (the last event it
\* received is an is_complete=false event of agent k), the run has a turn for
\* each agent before k, each with that agent's full text, and none for k or a
\* later agent; the turns are in the table once the db session is committed;
\* the run does not complete the session, so a session all of whose runs were
\* cut this way is not completed.
C5_DisconnectMidStream ==
    \A r \in Runs :
        (~connected[r] /\ sent[r] # <<>> /\ ~Last(sent[r]).is_complete) =>
            LET k == Last(sent[r]).order
            IN  /\ {row.order : row \in RowsOf(r)} = 1..(k - 1)
                /\ Cardinality(RowsOf(r)) = k - 1
                /\ \A row \in RowsOf(r) :
                     /\ row.agent_name = Lower(AgentAt(row.order))
                     /\ row.response_text = responses[r][AgentAt(row.order)]
                /\ pc[r] = "closed" => RowsOf(r) \subseteq agent_response_rows
                /\ db_dirty[r] = None
                /\ feedback_sessions[session_id[r]].status = "completed"
                     => \E r2 \in Runs \ {r} : connected[r2] /\ pc[r2] = "closed"

\* The consumer left after a fragment of Advocate, and the request is over.
C5_Witness ==
    \E r \in Runs :
        /\ ~connected[r]
        /\ pc[r] = "closed"
        /\ sent[r] # <<>>
        /\ Last(sent[r]).agent_name = "Advocate"
        /\ Last(sent[r]).chunk # <<>>
        /\ \E row \in agent_response_rows : row.id[1] = r /\ row.agent_name = "critic"

\* C7: once a session has its completed_at, neither its status nor its
\* completed_at changes again.
C7_CompletedOnce ==
    [][\A s \in Sessions :
          feedback_sessions[s].completed_at # None
              => feedback_sessions'[s] = feedback_sessions[s]]_vars

\* C8: the text of every recorded turn is the concatenation, in the order they
\* were sent, of the chunks of that agent's is_complete=false events of the run
\* that recorded it, and it is the text execute_debate accumulated.
C8_RoundTrip ==
    \A r \in Runs :
        \A row \in RowsOf(r) :
            /\ row.response_text = ConcatChunks(sent[r], AgentAt(row.order))
            /\ row.response_text = responses[r][AgentAt(row.order)]

\* A committed turn whose text came in two fragments.
C8_Witness ==
    \E r \in Runs :
        \E row \in agent_response_rows :
            /\ row.id[1] = r
            /\ Len(row.response_text) = 2
            /\ Cardinality({i \in 1..Len(sent[r]) :
                   sent[r][i].agent_name = AgentAt(row.order) /\ sent[r][i].chunk # <<>>}) = 2

\* The key of the learning a feedback request is about.
RequestKey(q) == <<PatternType(fb_req[q]), Description(fb_req[q]), Lower(fb_req[q].agent_name)>>

LearningsOf(key) == {l \in aggregated_learnings : LearningKey(l) = key}

CallsOf(key) == Cardinality({i \in 1..Len(upsert_calls) : upsert_calls[i] = key})

\* C6: feedback requests for one key, overlapping or not, leave what some
\* serial order leaves: once they are all over, there is one record for the
\* key and its frequency is the number of requests that succeeded.
C6_SerializedUpserts ==
    \A key \in LearningKeys :
        LET served == {q \in FbReqs : fb_pc[q] = "closed" /\ fb_status[q] = 200
                                        /\ RequestKey(q) = key}
        IN  ((\A q \in FbReqs : fb_pc[q] # "returned") /\ served # {})
                => /\ Cardinality(LearningsOf(key)) = 1
                   /\ \A l \in LearningsOf(key) : l.frequency = Cardinality(served)

\* C9: after n >= 1 calls of create_or_update_learning with one key, made one
\* after the other from an empty table, there is one record for the key and
\* its frequency is n; a key never called has no record.
C9_SequentialFrequency ==
    \A key \in LearningKeys :
        IF CallsOf(key) = 0
        THEN LearningsOf(key) = {}
        ELSE /\ Cardinality(LearningsOf(key)) = 1
             /\ \A l \in LearningsOf(key) : l.frequency = CallsOf(key)

\* Three calls with one key, the record at frequency 3.
C9_Witness ==
    \E key \in LearningKeys :
        /\ CallsOf(key) = 3
        /\ \E l \in LearningsOf(key) : l.frequency = 3

\* C10: every record has its confidence_score between 0 and 0.95.
C10_ConfidenceRange ==
    \A l \in aggregated_learnings :
        l.confidence_score >= 0 /\ l.confidence_score <= ConfidenceCap

\* C11: a call of create_or_update_learning never lowers the confidence_score
\* of a record: the record of the key the call names gets
\* max(previous, min(new, 0.95)), so a lower new score leaves it as it was,
\* and the records of the other keys keep theirs.
C11_ConfidenceMonotone ==
    [][\A l \in aggregated_learnings :
          \E l2 \in aggregated_learnings' :
              /\ l2.id = l.id
              /\ LearningKey(l2) = LearningKey(l)
              /\ l2.confidence_score >= l.confidence_score
              /\ l2.confidence_score =
                    IF Last(upsert_calls') = LearningKey(l)
                    THEN Max(l.confidence_score,
                             Min(Last(upsert_scores'), ConfidenceCap))
                    ELSE l.confidence_score]_vars

\* A record created at 0.8 was upserted again with 0.3 and is still at 0.8.
C11_Witness ==
    \E key \in LearningKeys :
        /\ Len(upsert_calls) >= 2
        /\ upsert_calls[1] = key /\ upsert_calls[2] = key
        /\ upsert_scores[1] = PositiveConfidence
        /\ upsert_scores[2] = NegativeConfidence
        /\ \A l \in LearningsOf(key) : l.confidence_score = PositiveConfidence

\* The error event generate_stream yields when add_agent_response raised.
IsRecordingError(e) ==
    /\ IsError(e)
    /\ e.message \in {<<"Agent name is required">>, <<"Response text is required">>,
                      <<"Order must be non-negative">>}

\* Recording a turn failed in run r.
RecordingFailed(r) == sent[r] # <<>> /\ IsRecordingError(Last(sent[r]))

\* The consumer of run r has received the completion event of the agent.
Delivered(r, name) ==
    \E i \in 1..Len(sent[r]) :
        /\ ~IsError(sent[r][i])
        /\ sent[r][i].agent_name = name
        /\ sent[r][i].is_complete

\* C12: when recording a turn fails in a run, the stream goes on: by the time
\* the request is over every agent has run and its completion event has been
\* delivered to the consumer.
C12_RecordingFailureNonFatal ==
    \A r \in Runs :
        (RecordingFailed(r) /\ pc[r] = "closed")
            => \A name \in AgentNames : Delivered(r, name)

\* C13: once recording a turn has failed in a run of a session, no step takes
\* that session to status completed.
C13_NeverCompletedAfterFailure ==
    [][\A r \in Runs :
          (RecordingFailed(r)
             /\ feedback_sessions[session_id[r]].status # "completed")
              => feedback_sessions'[session_id[r]].status # "completed"]_vars

\* C14: every Gateway call of a run is made with the memory context the run
\* read when it started, the same one for Critic, Advocate and Realist,
\* whatever feedback has been committed and whatever refresh_agent_memory has
\* published since.
C14_OneMemorySnapshot ==
    \A r \in Runs :
        \A i \in 1..Len(gateway_calls[r]) :
            /\ gateway_calls[r][i].memory_context = memory_context[r]
            /\ gateway_calls[r][i].memory_context = gateway_calls[r][1].memory_context

\* The second debate started with one learning in its memory context and has
\* called the Gateway for the three agents; by now a second learning is
\* committed and published, and the run's context still is the first alone.
C14_Witness ==
    /\ Len(gateway_calls[2]) = 3
    /\ Len(memory_context[2]) = 1
    /\ Cardinality(aggregated_learnings) = 2
    /\ Len(AGENT_MEMORY) = 2
    /\ gateway_calls[2][3].memory_context = memory_context[2]

\* C15: a debate handed a resume text or a job description that is empty or
\* whitespace fails at Critic's format_user_message: the Gateway is never
\* called, only Critic's opening event was yielded, the consumer gets the
\* validation error, no turn is recorded and the session is not completed.
C15_BlankInputFailsFirst ==
    \A r \in Runs :
        (pc[r] # "idle" /\ (IsBlank(resume_text[r]) \/ IsBlank(job_description[r]))) =>
            /\ gateway_calls[r] = <<>>
            /\ Len(emitted[r]) <= 1
            /\ pc[r] \notin {"stream", "workflow", "complete", "exhausted"}
            /\ pc[r] \in {"ended", "raised"} =>
                 Last(sent[r]) =
                    ErrorEvent(IF IsBlank(resume_text[r])
                               THEN <<"Resume text cannot be empty">>
                               ELSE <<"Job description cannot be empty">>)
            /\ RowsOf(r) = {}
            /\ db_dirty[r] = None
            /\ feedback_sessions[session_id[r]].status # "completed"

\* generate_stream ran a debate on a whitespace resume text, and the request
\* is over: the client got Critic's opening event and the error.
C15_Witness ==
    \E r \in Runs :
        /\ consumer[r] = "generate_stream"
        /\ resume_text[r] = <<" ">>
        /\ pc[r] = "closed"
        /\ Len(sent[r]) = 2
        /\ IsError(sent[r][2])
        /\ sent[r][2].message = <<"Resume text cannot be empty">>

\* C16: while Critic's or Advocate's text is empty or whitespace, the Gateway
\* is not called for Realist; when execute_debate gets to Realist with such a
\* text, Realist's format_user_message raises the validation error.
C16_RealistNeedsBothTexts ==
    \A r \in Runs :
        (IsBlank(responses[r]["Critic"]) \/ IsBlank(responses[r]["Advocate"])) =>
            /\ \A i \in 1..Len(gateway_calls[r]) :
                 gateway_calls[r][i].agent_name # "Realist"
            /\ (cur[r] = 3 /\ pc[r] \notin {"start", "call", "cancelled", "closed"}) =>
                 /\ pc[r] = AfterException(r)
                 /\ Last(sent[r]) =
                      ErrorEvent(IF IsBlank(responses[r]["Critic"])
                                 THEN <<"Critic response cannot be empty">>
                                 ELSE <<"Advocate response cannot be empty">>)

\* execute_debate got text from Critic and whitespace from Advocate, called
\* the Gateway for these two, and raised at Realist.
C16_Witness ==
    \E r \in Runs :
        /\ pc[r] = "raised"
        /\ cur[r] = 3
        /\ ~IsBlank(responses[r]["Critic"])
        /\ responses[r]["Advocate"] = <<" ">>
        /\ Len(gateway_calls[r]) = 2
        /\ Last(sent[r]) = ErrorEvent(<<"Advocate response cannot be empty">>)

\* C17: the k-th Gateway call of a run is for the k-th agent, and when it is
\* made execute_debate has yielded the completion event of every agent before
\* it; the user message of Realist's call embeds the whole texts of Critic
\* and Advocate, that is all the chunks the run has yielded for them.
C17_CallsFollowCompletion ==
    \A r \in Runs :
        \A k \in 1..Len(gateway_calls[r]) :
            /\ gateway_calls[r][k].agent_name = AgentAt(k)
            /\ \A j \in 1..(k - 1) : CompleteIndexes(emitted[r], AgentAt(j)) # {}
            /\ k = 3 =>
                 /\ gateway_calls[r][k].user_message.critic_response
                      = ConcatChunks(emitted[r], "Critic")
                 /\ gateway_calls[r][k].user_message.advocate_response
                      = ConcatChunks(emitted[r], "Advocate")

\* Realist's call was made with Critic's text of two fragments and Advocate's
\* of one.
C17_Witness ==
    \E r \in Runs :
        /\ Len(gateway_calls[r]) = 3
        /\ Len(gateway_calls[r][3].user_message.critic_response) = 2
        /\ Len(gateway_calls[r][3].user_message.advocate_response) = 1
        /\ Len(ConcatChunks(emitted[r], "Critic")) = 2

\* C18: when execute_debate has yielded the Workflow event, that event is the
\* last and the only one of its kind, it has order 4 and is_complete=true,
\* and its results are the texts the three agents accumulated, none of them
\* the empty string.
C18_WorkflowResults ==
    \A r \in Runs :
        (emitted[r] # <<>> /\ Last(emitted[r]).agent_name = "Workflow") =>
            LET e == Last(emitted[r])
            IN  /\ Cardinality(CompleteIndexes(emitted[r], "Workflow")) = 1
                /\ e.order = 4
                /\ e.is_complete
                /\ e.results.critic_response = ConcatChunks(emitted[r], "Critic")
                /\ e.results.advocate_response = ConcatChunks(emitted[r], "Advocate")
                /\ e.results.realist_response = ConcatChunks(emitted[r], "Realist")
                /\ e.results.critic_response # <<>>
                /\ e.results.advocate_response # <<>>
                /\ e.results.realist_response # <<>>

\* C19: the text of every recorded turn, in a request's db session or
\* committed, has a character that is not whitespace; an agent whose stream
\* gave nothing but whitespace, or nothing, has no turn in its run.
C19_TurnTextNotBlank ==
    /\ \A row \in agent_response_rows : ~IsBlank(row.response_text)
    /\ \A r \in Runs :
         /\ \A row \in db_new[r] : ~IsBlank(row.response_text)
         /\ \A name \in AgentNames :
              IsBlank(ConcatChunks(emitted[r], name))
                  => \A row \in RowsOf(r) : row.agent_name # Lower(name)

\* Critic's turn is committed; Advocate's stream was a single whitespace
\* fragment and ended, and the request is over with no turn for Advocate.
C19_Witness ==
    \E r \in Runs :
        /\ pc[r] = "closed"
        /\ CompleteIndexes(emitted[r], "Advocate") # {}
        /\ ConcatChunks(emitted[r], "Advocate") = <<" ">>
        /\ {row.agent_name : row \in RowsOf(r)} = {"critic"}
        /\ RowsOf(r) \subseteq agent_response_rows

\* C20: a feedback request that fails leaves no upsert behind and changes no
\* learning; one that succeeds has made one upsert, and when it is committed
\* either one record of its key is inserted, or the frequency of the record
\* of its key grows by exactly 1, and no other record changes.
C20_OneUpsertPerSubmission ==
    [][\A q \in FbReqs :
          /\ (fb_pc[q] = "idle" /\ fb_pc'[q] = "returned") =>
                (fb_learning'[q] # None <=> fb_status'[q] = 200)
          /\ (fb_pc[q] = "returned" /\ fb_pc'[q] = "closed") =>
                IF fb_status[q] # 200
                THEN aggregated_learnings' = aggregated_learnings
                ELSE \/ \E new \in aggregated_learnings' \ aggregated_learnings :
                          /\ aggregated_learnings' = aggregated_learnings \cup {new}
                          /\ LearningKey(new) = RequestKey(q)
                          /\ new.frequency = 1
                          /\ \A l \in aggregated_learnings : l.id # new.id
                     \/ \E l \in aggregated_learnings :
                          /\ LearningKey(l) = RequestKey(q)
                          /\ \E l2 \in aggregated_learnings' :
                                /\ l2.id = l.id
                                /\ l2.frequency = l.frequency + 1
                                /\ aggregated_learnings' \ {l2} = aggregated_learnings \ {l}]_vars

\* The session and agent of a request body have no recorded turn.
NoTurnFor(req) ==
    \A row \in agent_response_rows :
        ~(row.session_id = req.session_id
            /\ Position(row.agent_name) = Position(req.agent_name))

\* C21: a feedback request whose session and agent have no recorded turn is
\* answered 404; it prepares no change of a turn and no upsert, and neither
\* its handler nor the end of its db session changes a turn or a learning.
C21_UnknownTurnNotFound ==
    [][\A q \in FbReqs :
          /\ (fb_pc[q] = "idle" /\ fb_pc'[q] = "returned" /\ NoTurnFor(fb_req'[q])) =>
                /\ fb_status'[q] = 404
                /\ fb_turn'[q] = None
                /\ fb_learning'[q] = None
                /\ agent_response_rows' = agent_response_rows
                /\ aggregated_learnings' = aggregated_learnings
          /\ (fb_pc[q] = "returned" /\ fb_pc'[q] = "closed" /\ NoTurnFor(fb_req[q])) =>
                /\ fb_status[q] = 404
                /\ agent_response_rows' = agent_response_rows
                /\ aggregated_learnings' = aggregated_learnings]_vars

\* Two requests are over with 404: one for a session that does not exist,
\* one for Realist in a session whose debate was cut after Critic.
C21_Witness ==
    \E q1 \in FbReqs, q2 \in FbReqs :
        /\ fb_pc[q1] = "closed" /\ fb_status[q1] = 404
        /\ fb_req[q1].session_id = "s9"
        /\ fb_pc[q2] = "closed" /\ fb_status[q2] = 404
        /\ fb_req[q2].session_id = "s1" /\ fb_req[q2].agent_name = "Realist"
        /\ aggregated_learnings = {}

\* The request body of the scenario: Critic, thumbs down, "too vague".
TooVagueRequest ==
    [session_id |-> "s1", agent_name |-> "Critic", thumbs_up |-> FALSE,
     feedback_text |-> Some(TooVague)]

\* The record a served request leaves: the one it inserted or updated.
RecordOf(q) == fb_learning[q][1].row

\* C22: the learning of a feedback request that succeeded has pattern_type
\* positive_feedback and confidence 0.8 for thumbs up, negative_feedback and
\* 0.3 for thumbs down; its description is the first 200 characters of the
\* feedback text when a text is given, and the generic sentence otherwise;
\* its agent_name is the lower-cased name.  When two requests (Critic, thumbs
\* down, "too vague") have been served, and no third, there is one record
\* negative_feedback / "too vague" / critic, with frequency 2 and confidence
\* 0.3.
C22_DerivedLearning ==
    /\ \A q \in FbReqs :
         fb_status[q] = 200 =>
            LET req == fb_req[q]
                given == req.feedback_text # None /\ req.feedback_text[1] # <<>>
            IN  /\ RecordOf(q).pattern_type =
                     (IF req.thumbs_up THEN "positive_feedback" ELSE "negative_feedback")
                /\ RecordOf(q).confidence_score = (IF req.thumbs_up THEN 80 ELSE 30)
                /\ RecordOf(q).agent_name \in {"critic", "advocate", "realist"}
                /\ Position(RecordOf(q).agent_name) = Position(req.agent_name)
                /\ Len(RecordOf(q).description) <= 200
                /\ given =>
                     /\ Len(RecordOf(q).description) \in {Len(req.feedback_text[1]), 200}
                     /\ \A i \in 1..Len(RecordOf(q).description) :
                          RecordOf(q).description[i] = req.feedback_text[1][i]
                /\ ~given =>
                     RecordOf(q).description =
                        (IF req.thumbs_up THEN <<"User gave positive feedback">>
                                          ELSE <<"User gave negative feedback">>)
    /\ LET served == {q \in FbReqs : fb_pc[q] = "closed" /\ fb_status[q] = 200
                                       /\ fb_req[q] = TooVagueRequest}
           pending == {q \in FbReqs : fb_pc[q] = "returned" /\ fb_req[q] = TooVagueRequest}
           records == {l \in aggregated_learnings :
                          /\ l.pattern_type = "negative_feedback"
                          /\ l.description = TooVague
                          /\ l.agent_name = "critic"}
       IN  (Cardinality(served) = 2 /\ pending = {}) =>
              /\ Cardinality(records) = 1
              /\ \A l \in records : l.frequency = 2 /\ l.confidence_score = 30

\* The scenario was served twice, and a third request with a text of 201
\* characters left a record whose description has 200.
C22_Witness ==
    /\ \E q1 \in FbReqs, q2 \in FbReqs :
          /\ q1 # q2
          /\ fb_pc[q1] = "closed" /\ fb_status[q1] = 200 /\ fb_req[q1] = TooVagueRequest
          /\ fb_pc[q2] = "closed" /\ fb_status[q2] = 200 /\ fb_req[q2] = TooVagueRequest
    /\ \E l \in aggregated_learnings : l.description = TooVague /\ l.frequency = 2
    /\ \E q \in FbReqs :
          /\ fb_pc[q] = "closed" /\ fb_status[q] = 200
          /\ fb_req[q].feedback_text = Some(LongText)
    /\ \E l \in aggregated_learnings : Len(l.description) = 200

\* Row a comes no later than row b in (frequency desc, last_updated desc).
ComesFirst(a, b) ==
    \/ a.frequency > b.frequency
    \/ a.frequency = b.frequency /\ a.last_updated >= b.last_updated

\* rows are the first limit rows of the table in that order.
IsTop(rows, limit, table) ==
    /\ Len(rows) <= limit
    /\ Len(rows) = IF Cardinality(table) < limit THEN Cardinality(table) ELSE limit
    /\ \A i \in 1..Len(rows) : rows[i] \in table
    /\ \A i \in 1..Len(rows), j \in 1..Len(rows) :
          i < j => rows[i] # rows[j] /\ ComesFirst(rows[i], rows[j])
    /\ \A l \in table :
          (\A i \in 1..Len(rows) : rows[i] # l) =>
              \A i \in 1..Len(rows) : ComesFirst(rows[i], l)

\* C23: get_aggregated_learnings(limit) returns at most limit rows, the first
\* limit of all learnings ordered by frequency descending, then last_updated
\* descending; the memory context a run starts with is the descriptions of
\* the first 10 in that order.
C23_TopPatterns ==
    [][/\ Len(repo_calls') > Len(repo_calls) =>
              IsTop(Last(repo_calls').value, Last(repo_calls').arg, aggregated_learnings)
       /\ \A r \in Runs :
            (pc[r] = "idle" /\ pc'[r] = "start") =>
               \E n \in 0..Cardinality(aggregated_learnings) :
                  \E rows \in [1..n -> aggregated_learnings] :
                     /\ IsTop(rows, 10, aggregated_learnings)
                     /\ memory_context'[r] = [i \in 1..n |-> rows[i].description]]_vars

\* Of three learnings the call with limit 2 returned two, the more frequent
\* first although it was written earlier; a run started with all three
\* descriptions, the same one first.
C23_Witness ==
    /\ Cardinality(aggregated_learnings) = 3
    /\ repo_calls # <<>>
    /\ Last(repo_calls).arg = 2
    /\ Len(Last(repo_calls).value) = 2
    /\ Last(repo_calls).value[1].frequency > Last(repo_calls).value[2].frequency
    /\ Last(repo_calls).value[1].last_updated < Last(repo_calls).value[2].last_updated
    /\ \E r \in Runs :
          /\ pc[r] = "start"
          /\ Len(memory_context[r]) = 3
          /\ memory_context[r][1] = Last(repo_calls).value[1].description

C25_DeleteResume ==
    [][Len(repo_calls') > Len(repo_calls) =>
          LET c == Last(repo_calls')
          IN  /\ c.call = "delete_resume" =>
                    IF c.arg \in DOMAIN resumes
                    THEN c.value = TRUE /\ c.arg \notin DOMAIN resumes'
                    ELSE c.value = FALSE /\ resumes' = resumes
              /\ c.call = "get_resume_by_id" =>
                    ((\E i \in 1..Len(repo_calls) :
                         /\ repo_calls[i].call = "delete_resume"
                         /\ repo_calls[i].arg = c.arg
                         /\ repo_calls[i].value = TRUE)
                      => c.value = None)]_vars

\* A stored resume was deleted (True), looked up (None) and deleted once
\* more (False).
C25_Witness ==
    /\ Len(repo_calls) = 3
    /\ repo_calls[1].call = "delete_resume" /\ repo_calls[1].value = TRUE
    /\ repo_calls[2].call = "get_resume_by_id" /\ repo_calls[2].arg = repo_calls[1].arg
    /\ repo_calls[2].value = None
    /\ repo_calls[3].call = "delete_resume" /\ repo_calls[3].arg = repo_calls[1].arg
    /\ repo_calls[3].value = FALSE

\* C26: the error a run reports for a rate-limit failure or an authentication
\* failure of the Gateway is not the one of a generic API error, nor the one
\* of an unexpected error.
C26_FailureKindsDistinct ==
    \A r \in Runs :
        (/\ openai_error[r] # None
         /\ openai_error[r][1] \in {"RateLimitError", "AuthenticationError"}
         /\ sent[r] # <<>>
         /\ IsError(Last(sent[r]))) =>
            Last(sent[r]).message[1] \notin
               {"OpenAI API error for", "Unexpected error with OpenAI for"}

\* C27: a session whose stored status is completed has, among the stored
\* turns, one of Critic with order 1, one of Advocate with order 2 and one of
\* Realist with order 3.
C27_CompletedHasAllTurns ==
    \A s \in DOMAIN feedback_sessions :
        feedback_sessions[s].status = "completed" =>
            \A k \in 1..3 :
                \E row \in agent_response_rows :
                    /\ row.session_id = s
                    /\ row.agent_name = <<"critic", "advocate", "realist">>[k]
                    /\ row.order = k

\* The session is completed after one debate, and a second debate of it was
\* cut by a disconnect before any turn of its own.
C27_Witness ==
    /\ feedback_sessions["s1"].status = "completed"
    /\ Cardinality(agent_response_rows) = 3
    /\ pc[1] = "closed"
    /\ pc[2] = "closed" /\ ~connected[2] /\ db_new[2] = {}

\* C28: when the request of a run is over and the consumer was sent the
\* Workflow event, the session of the run is stored as completed, also when
\* the consumer closed the connection right after that event.
C28_WorkflowThenCompleted ==
    \A r \in Runs :
        (/\ pc[r] = "closed"
         /\ \E i \in 1..Len(sent[r]) :
               ~IsError(sent[r][i]) /\ sent[r][i].agent_name = "Workflow") =>
            feedback_sessions[session_id[r]].status = "completed"

\* C29: no feedback request the UI sends for an agent whose buttons it shows
\* is rejected by the validation of the request body (status 422): each is
\* answered by submit_feedback itself.
C29_UiFeedbackAccepted ==
    \A q \in UiFbReqs :
        fb_pc[q] # "idle" => fb_status[q] # 422 /\ ValidFeedbackRequest(fb_req[q])

\* C30: every completion event of an agent that the UI reads from the stream
\* of a session adds one row of feedback buttons, for that agent and that
\* session, and no other event adds any; so each agent of each session
\* streamed gets its buttons exactly once.
C30_ButtonsOncePerSession ==
    [][(ui_read' = ui_read + 1 /\ ui_run' = ui_run) =>
          LET e == sent[ui_run][ui_read']
          IN  IF ~IsError(e) /\ e.is_complete /\ e.agent_name # "Workflow"
              THEN chat_container' =
                     Append(chat_container,
                            [agent_name |-> e.agent_name,
                             session_id |-> current_session_id[1]])
              ELSE chat_container' = chat_container]_vars
====
